---- MODULE Spec2Model ----
(***************************************************************************)
(* A model of fabric_cicd.FabricWorkspace                                  *)
(* (src/src/fabric_cicd/fabric_workspace.py): the repository scan, the     *)
(* deployed-state fetch, the content rewrite pipeline and the publish /    *)
(* unpublish engine.                                                       *)
(*                                                                         *)
(* Text (file contents, logical ids, guids, find tokens) is a sequence of  *)
(* atoms; an atom is a one-element string such as "a".  Substring search   *)
(* and replacement work on these sequences as Python's `in` and            *)
(* str.replace work on characters.                                         *)
(***************************************************************************)
EXTENDS Naturals, Sequences, FiniteSets, TLC

VARIABLES
    phase,                 \* "new" before __init__, "ready" after it returned, "failed" if it raised
    disk,                  \* the repository directory: item folders in os.walk order
    parameter_file,        \* the parameter file as the Parameter collaborator sees it
    remote,                \* the workspace inventory held by the remote service
    environment_parameter, \* self.environment_parameter
    deployed_items,        \* self.deployed_items
    repository_items,      \* self.repository_items
    publish_item_name_exclude_regex, \* self.publish_item_name_exclude_regex
    last,                  \* record of the most recent operation (what it was given, what it did)
    prev,                  \* summary of the operation before it
    scanned,               \* what the most recent repository scan read and built
    steps                  \* operations run on the workspace since __init__

vars == <<phase, disk, parameter_file, remote, environment_parameter, deployed_items,
          repository_items, publish_item_name_exclude_regex, last, prev, scanned, steps>>

(***************************************************************************)
(* Bounds of the model.                                                    *)
(***************************************************************************)
\* Longest file content the model follows; a rewrite that would grow a file
\* beyond it is not taken.
MaxLen == 6

\* Operations followed after __init__ in one run.
MaxOps == 2

\* Folders of the repository directory in the runs that vary the directory.
MaxFolders == 2

None == "None"

(***************************************************************************)
(* Text helpers: Python's `sub in s` and s.replace(old, new).              *)
(***************************************************************************)
StartsWith(s, p) == Len(p) <= Len(s) /\ SubSeq(s, 1, Len(p)) = p

Contains(s, sub) == \E i \in 0..(Len(s) - Len(sub)) : SubSeq(s, i + 1, i + Len(sub)) = sub

RECURSIVE Interleave(_, _)
Interleave(s, new) ==
    IF s = <<>> THEN new ELSE new \o <<Head(s)>> \o Interleave(Tail(s), new)

RECURSIVE ReplaceScan(_, _, _)
ReplaceScan(s, old, new) ==
    IF Len(s) < Len(old) THEN s
    ELSE IF StartsWith(s, old)
         THEN new \o ReplaceScan(SubSeq(s, Len(old) + 1, Len(s)), old, new)
         ELSE <<Head(s)>> \o ReplaceScan(Tail(s), old, new)

\* str.replace: every non-overlapping occurrence, scanning left to right; an
\* empty `old` matches between all characters.
StrReplace(s, old, new) ==
    IF old = <<>> THEN Interleave(s, new) ELSE ReplaceScan(s, old, new)

(***************************************************************************)
(* The two item collections.  A Python dict of dicts keyed by type then    *)
(* name is a sequence of Item records with unique (type, name), in order   *)
(* of first insertion; a type is a key of the outer dict iff some record   *)
(* carries it.                                                             *)
(***************************************************************************)
Item(type, name, description, guid, logical_id, path, item_files) ==
    [type |-> type, name |-> name, description |-> description, guid |-> guid,
     logical_id |-> logical_id, path |-> path, item_files |-> item_files]

\* Item(type, name, description, guid): the remaining fields at their defaults.
Item4(type, name, description, guid) == Item(type, name, description, guid, <<>>, "", <<>>)

HasType(d, t) == \E i \in 1..Len(d) : d[i].type = t

HasItem(d, t, n) == \E i \in 1..Len(d) : d[i].type = t /\ d[i].name = n

IndexOf(d, t, n) == CHOOSE i \in 1..Len(d) : d[i].type = t /\ d[i].name = n

GetItem(d, t, n) == d[IndexOf(d, t, n)]

\* d[t][n] = item, creating d[t] when the type is new.
PutItem(d, item) ==
    IF HasItem(d, item.type, item.name)
    THEN [d EXCEPT ![IndexOf(d, item.type, item.name)] = item]
    ELSE Append(d, item)

\* for by_name in d.values(): for item in by_name.values(): ...
RECURSIVE DictValues(_)
DictValues(d) ==
    IF d = <<>> THEN <<>>
    ELSE LET t == d[1].type
         IN SelectSeq(d, LAMBDA x : x.type = t) \o DictValues(SelectSeq(d, LAMBDA x : x.type # t))

(***************************************************************************)
(* The repository directory.  A folder is                                  *)
(*   [path, marker, type, name, logical_id, files]                         *)
(* where `marker` says what the scan finds of the folder's .platform file: *)
(*   "none"            no .platform in the folder                          *)
(*   "ok"              a complete metadata object                          *)
(*   "goneBeforeIter"  listed by os.walk, deleted before the folder is     *)
(*                     looked at again                                     *)
(*   "goneBeforeOpen"  listed by os.walk, deleted just before it is opened *)
(*   "badjson"         not JSON                                            *)
(*   "notobject"       JSON, but a list instead of an object               *)
(*   "nometadata"      an object without "metadata"                        *)
(*   "notype"          metadata without "type"                             *)
(*   "noname"          metadata without "displayName"                      *)
(*   "noconfig"        no config.logicalId                                 *)
(* and `files` are the folder's other files, [name, type, contents].       *)
(***************************************************************************)
Folder(path, marker, type, name, logical_id, files) ==
    [path |-> path, marker |-> marker, type |-> type, name |-> name,
     logical_id |-> logical_id, files |-> files]

DiskFile(name, type, contents) == [name |-> name, type |-> type, contents |-> contents]

MarkerListed(f) == f.marker # "none"
MarkerGone(f) == f.marker \in {"goneBeforeIter", "goneBeforeOpen"}

\* What json.load returns for the folder's .platform file.
ParseMarker(f) ==
    [kind |-> IF f.marker = "notobject" THEN "list" ELSE "object",
     hasMetadata |-> f.marker # "nometadata",
     hasType |-> f.marker # "notype",
     hasName |-> f.marker # "noname",
     hasConfig |-> f.marker # "noconfig",
     type |-> f.type, name |-> f.name, description |-> "",
     logical_id |-> f.logical_id]

\* The text of a .platform file: it names the item's logical id.
MarkerContents(f) == IF f.marker = "badjson" THEN <<"?">> ELSE <<"m">> \o f.logical_id

\* A File of an item: file_path is the folder and the name, relative_path the
\* path inside the item folder.
File(dir, name, type, contents) ==
    [file_path |-> <<dir, name>>, name |-> name, relative_path |-> name, type |-> type,
     contents |-> contents]

\* Item.collect_item_files: one File per file found in the item folder, the
\* .platform file included.
CollectItemFiles(f) ==
    (IF MarkerGone(f) THEN <<>> ELSE <<File(f.path, ".platform", "text", MarkerContents(f))>>)
    \o [i \in 1..Len(f.files) |-> File(f.path, f.files[i].name, f.files[i].type,
                                    f.files[i].contents)]

\* any(directory.iterdir()) is false
DirectoryEmpty(f) == f.marker = "goneBeforeIter" /\ f.files = <<>>

\* A lookup that takes the deployed item of that name, whatever its type.
DeployedGuidByName(deployed, type, name) ==
    IF \E i \in 1..Len(deployed) : deployed[i].name = name
    THEN deployed[CHOOSE i \in 1..Len(deployed) : deployed[i].name = name].guid
    ELSE <<>>

\* self.deployed_items.get(item_type, {}).get(item_name, Item("", "", "", "")).guid
DeployedGuid(deployed, type, name) ==
    IF HasItem(deployed, type, name) THEN GetItem(deployed, type, name).guid ELSE <<>>

(***************************************************************************)
(* _refresh_repository_items, one folder of the walk.  `acc` carries the   *)
(* collection built so far, the local variable item_metadata (unset until  *)
(* the first successful json.load), the exception that ended the scan and  *)
(* the folders skipped with a warning.                                     *)
(***************************************************************************)
ScanStart ==
    [items |-> <<>>, item_metadata |-> [kind |-> "unset"], err |-> "none", errPath |-> None,
     skipped |-> {}]

\* The metadata in item_metadata after the try block of lines 156-164: the
\* caught FileNotFoundError / JSONDecodeError only build a ParsingError and
\* drop it, so item_metadata keeps what it held.
MetadataAfterRead(acc, f) ==
    IF MarkerGone(f) \/ f.marker = "badjson" THEN acc.item_metadata ELSE ParseMarker(f)

\* A scan that keeps the guid an item of the old collection already holds.
ScannedGuidKept(deployed, type, name) ==
    IF HasItem(repository_items, type, name) /\ GetItem(repository_items, type, name).guid # <<>>
    THEN GetItem(repository_items, type, name).guid
    ELSE DeployedGuid(deployed, type, name)

\* item_guid of line 178: read from the deployed collection only.
ScannedGuid(deployed, type, name) == DeployedGuid(deployed, type, name)

RegisterItem(acc, f, md, deployed) ==
    [acc EXCEPT !.item_metadata = md,
                !.items = PutItem(acc.items,
                                  Item(md.type, md.name, md.description,
                                       ScannedGuid(deployed, md.type, md.name),
                                       md.logical_id, f.path, CollectItemFiles(f)))]

ScanFail(acc, f, md, e) == [acc EXCEPT !.item_metadata = md, !.err = e, !.errPath = f.path]

ScanFolder(acc, f, deployed) ==
    IF acc.err # "none" \/ ~MarkerListed(f) THEN acc
    ELSE IF DirectoryEmpty(f) THEN [acc EXCEPT !.skipped = @ \cup {f.path}]
    ELSE LET md == MetadataAfterRead(acc, f)
         IN IF md.kind = "unset" THEN ScanFail(acc, f, md, "UnboundLocalError")
            ELSE IF md.kind = "list" THEN ScanFail(acc, f, md, "TypeError")
            ELSE IF ~md.hasMetadata THEN ScanFail(acc, f, md, "KeyError")
            ELSE IF ~md.hasType \/ ~md.hasName THEN ScanFail(acc, f, md, "ParsingError")
            ELSE IF ~md.hasConfig THEN ScanFail(acc, f, md, "KeyError")
            ELSE RegisterItem(acc, f, md, deployed)

RECURSIVE ScanFrom(_, _, _)
ScanFrom(acc, folders, deployed) ==
    IF folders = <<>> THEN acc
    ELSE ScanFrom(ScanFolder(acc, Head(folders), deployed), Tail(folders), deployed)

\* The whole walk: self.repository_items = {} and then every folder in turn.
ScanRepository(folders, deployed) == ScanFrom(ScanStart, folders, deployed)

(***************************************************************************)
(* The content rewrite pipeline.                                           *)
(***************************************************************************)
\* self.environment and self.workspace_id, fixed at construction.
environment == "PPE"
workspace_id == <<"t">>

\* constants.DEFAULT_WORKSPACE_ID, the all-zero guid.
DEFAULT_WORKSPACE_ID == <<"z">>

\* _replace_logical_ids over the items still to visit: [err, text].
RECURSIVE ReplaceLogicalIdsFrom(_, _)
ReplaceLogicalIdsFrom(items, raw_file) ==
    IF items = <<>> THEN [err |-> "none", text |-> raw_file]
    ELSE LET item_details == Head(items)
         IN IF Contains(raw_file, item_details.logical_id)
            THEN IF item_details.guid = <<>>
                 THEN [err |-> "ParsingError", text |-> raw_file]
                 ELSE ReplaceLogicalIdsFrom(Tail(items),
                          StrReplace(raw_file, item_details.logical_id, item_details.guid))
            ELSE ReplaceLogicalIdsFrom(Tail(items), raw_file)

ReplaceLogicalIds(repo, raw_file) == ReplaceLogicalIdsFrom(DictValues(repo), raw_file)

\* process_input_path of a rule without file_path: no path.
NoPath == <<>>

\* A find_replace rule of the parameter table.  replace_value maps
\* environments to texts; item_type and item_name are None and file_path is
\* NoPath when the rule does not state them.
Rule(find_value, replace_value, item_type, item_name, file_path) ==
    [find_value |-> find_value, replace_value |-> replace_value, item_type |-> item_type,
     item_name |-> item_name, file_path |-> file_path]

\* check_replacement: every scope field the rule states must match.
CheckReplacement(input_type, input_name, input_path, item_type, item_name, file_path) ==
    /\ input_type = None \/ input_type = item_type
    /\ input_name = None \/ input_name = item_name
    /\ input_path = NoPath \/ input_path = file_path

\* A new-structure loop that does not look at the scope of a rule.
RECURSIVE ReplaceNewUnscoped(_, _, _, _, _)
ReplaceNewUnscoped(rules, raw_file, item_type, item_name, file_path) ==
    IF rules = <<>> THEN raw_file
    ELSE LET parameter_dict == Head(rules)
         IN ReplaceNewUnscoped(Tail(rules),
                IF /\ Contains(raw_file, parameter_dict.find_value)
                   /\ environment \in DOMAIN parameter_dict.replace_value
                THEN StrReplace(raw_file, parameter_dict.find_value,
                                parameter_dict.replace_value[environment])
                ELSE raw_file,
                item_type, item_name, file_path)

\* The loop over a new-structure table (lines 317-329).
RECURSIVE ReplaceNewFrom(_, _, _, _, _)
ReplaceNewFrom(rules, raw_file, item_type, item_name, file_path) ==
    IF rules = <<>> THEN raw_file
    ELSE LET parameter_dict == Head(rules)
             applies ==
                 /\ Contains(raw_file, parameter_dict.find_value)
                 /\ environment \in DOMAIN parameter_dict.replace_value
                 /\ CheckReplacement(parameter_dict.item_type, parameter_dict.item_name,
                                     parameter_dict.file_path, item_type, item_name, file_path)
         IN ReplaceNewFrom(Tail(rules),
                IF applies
                THEN StrReplace(raw_file, parameter_dict.find_value,
                                parameter_dict.replace_value[environment])
                ELSE raw_file,
                item_type, item_name, file_path)

\* The loop over an old-structure table (lines 334-338).
RECURSIVE ReplaceOldFrom(_, _)
ReplaceOldFrom(rules, raw_file) ==
    IF rules = <<>> THEN raw_file
    ELSE LET parameter_dict == Head(rules)
         IN ReplaceOldFrom(Tail(rules),
                IF /\ Contains(raw_file, parameter_dict.find_value)
                   /\ environment \in DOMAIN parameter_dict.replace_value
                THEN StrReplace(raw_file, parameter_dict.find_value,
                                parameter_dict.replace_value[environment])
                ELSE raw_file)

\* _replace_parameters for a table [structure, find_replace]; structure is
\* "none" when the table has no find_replace key.  The tables of the model
\* have no variable_libraries key.
ReplaceParameters(table, raw_file, item_type, item_name, file_path) ==
    IF table.structure = "new"
    THEN ReplaceNewFrom(table.find_replace, raw_file, item_type, item_name, file_path)
    ELSE IF table.structure = "old"
         THEN ReplaceOldFrom(table.find_replace, raw_file)
         ELSE raw_file

\* constants.WORKSPACE_ID_REFERENCE_REGEX on atoms: "w" is the key, the
\* separator and the opening quote of a workspace reference, the value runs
\* to the first closing quote "q".
FirstQuote(s) == CHOOSE j \in 2..Len(s) : s[j] = "q" /\ \A k \in 2..(j - 1) : s[k] # "q"

\* A rewrite that replaces the placeholder wherever it stands.
ReplaceWorkspaceIdsEverywhere(raw_file) == StrReplace(raw_file, DEFAULT_WORKSPACE_ID, workspace_id)

\* re.sub over the references, left to right.
RECURSIVE ReplaceWorkspaceIds(_)
ReplaceWorkspaceIds(raw_file) ==
    IF raw_file = <<>> THEN <<>>
    ELSE IF Head(raw_file) = "w" /\ \E j \in 2..Len(raw_file) : raw_file[j] = "q"
         THEN LET j == FirstQuote(raw_file)
                  group0 == SubSeq(raw_file, 1, j)
                  group2 == SubSeq(raw_file, 2, j - 1)
              IN (IF group2 = DEFAULT_WORKSPACE_ID
                  THEN StrReplace(group0, DEFAULT_WORKSPACE_ID, workspace_id)
                  ELSE group0)
                 \o ReplaceWorkspaceIds(SubSeq(raw_file, j + 1, Len(raw_file)))
         ELSE <<Head(raw_file)>> \o ReplaceWorkspaceIds(Tail(raw_file))

(***************************************************************************)
(* The remote service behind FabricEndpoint.invoke.  It holds the          *)
(* workspace's items [type, name, description, id] and the number of ids   *)
(* it has issued; a call either returns a response or raises.              *)
(***************************************************************************)
\* The ids the service hands out to created items, in order.
FreshIds == << <<"n1">>, <<"n2">>, <<"n3">> >>

RemoteItem(type, name, id) == [type |-> type, name |-> name, description |-> "", id |-> id]

Call(method, path, guid, body, ok) ==
    [method |-> method, path |-> path, guid |-> guid, body |-> body, ok |-> ok]

NoBody == [k \in {} |-> None]

\* Whether the service can answer the call with a success.
CanServe(r, method, path, guid, type, name) ==
    IF method = "GET" THEN TRUE
    ELSE IF method = "POST" /\ path = "/items"
         THEN /\ r.issued < Len(FreshIds)
              /\ ~\E x \in r.items : x.type = type /\ x.name = name
         ELSE \E x \in r.items : x.id = guid

\* The id in the response of a successful create.
CreatedId(r) == FreshIds[r.issued + 1]

AfterCreate(r, type, name) ==
    [items |-> r.items \cup {RemoteItem(type, name, CreatedId(r))}, issued |-> r.issued + 1]

AfterDelete(r, guid) == [r EXCEPT !.items = {x \in r.items : x.id # guid}]

\* response["body"]["value"] of GET /items, in the service's listing order.
RECURSIVE Listing(_)
Listing(items) ==
    IF items = {} THEN <<>>
    ELSE LET x == CHOOSE y \in items : TRUE IN <<x>> \o Listing(items \ {x})

(***************************************************************************)
(* Records of what an operation was given and what it did.                 *)
(***************************************************************************)
NoOp ==
    [op |-> "none", type |-> None, name |-> None, exclude_path |-> None,
     func_process_file |-> None, creation_payload |-> None, err |-> "none",
     errPath |-> None, skipped |-> {}, calls |-> <<>>, guidBefore |-> <<>>,
     guidAfter |-> <<>>, filesBefore |-> <<>>, tableLoaded |-> FALSE,
     excluded |-> FALSE, generic_id |-> <<>>, lookup_type |-> None, path |-> None,
     returned |-> "nothing", returned_name |-> None, returned_id |-> <<>>]

\* POST /items is "create", POST .../updateDefinition "updateDefinition",
\* PATCH "updateMetadata", DELETE "delete", GET "list".
CallKind(c) ==
    IF c.method = "GET" THEN "list"
    ELSE IF c.method = "DELETE" THEN "delete"
    ELSE IF c.method = "PATCH" THEN "updateMetadata"
    ELSE IF c.path = "/items" THEN "create" ELSE "updateDefinition"

Summary(o) ==
    [op |-> o.op, type |-> o.type, name |-> o.name, err |-> o.err,
     kind |-> IF o.calls = <<>> THEN "none" ELSE CallKind(o.calls[1]),
     ok |-> o.calls # <<>> /\ o.calls[1].ok,
     guidBefore |-> o.guidBefore, guidAfter |-> o.guidAfter]

(***************************************************************************)
(* _refresh_deployed_items                                                 *)
(***************************************************************************)
RECURSIVE DeployedFrom(_, _)
DeployedFrom(d, value) ==
    IF value = <<>> THEN d
    ELSE LET item == Head(value)
         IN DeployedFrom(PutItem(d, Item4(item.type, item.name, item.description, item.id)),
                         Tail(value))

FetchDeployed(r) == DeployedFrom(<<>>, Listing(r.items))

RefreshDeployedItems(ok) ==
    /\ phase = "ready"
    /\ steps < MaxOps
    /\ deployed_items' = IF ok THEN FetchDeployed(remote) ELSE deployed_items
    /\ last' = [NoOp EXCEPT !.op = "fetch",
                            !.err = IF ok THEN "none" ELSE "InvokeError",
                            !.calls = <<Call("GET", "/items", <<>>, NoBody, ok)>>]
    /\ prev' = Summary(last)
    /\ steps' = steps + 1
    /\ UNCHANGED <<phase, disk, parameter_file, remote, environment_parameter,
                   repository_items, publish_item_name_exclude_regex, scanned>>

(***************************************************************************)
(* _refresh_repository_items                                               *)
(***************************************************************************)
RefreshRepositoryItems ==
    /\ phase = "ready"
    /\ steps < MaxOps
    /\ LET scan == ScanRepository(disk, deployed_items)
       IN /\ repository_items' = scan.items
          /\ scanned' = [deployed |-> deployed_items, items |-> scan.items, err |-> scan.err]
          /\ last' = [NoOp EXCEPT !.op = "scan", !.err = scan.err, !.errPath = scan.errPath,
                                  !.skipped = scan.skipped]
    /\ prev' = Summary(last)
    /\ steps' = steps + 1
    /\ UNCHANGED <<phase, disk, parameter_file, remote, environment_parameter,
                   deployed_items, publish_item_name_exclude_regex>>

(***************************************************************************)
(* __init__: _refresh_parameter_file, _refresh_deployed_items and          *)
(* _refresh_repository_items in this order; an exception of any of them    *)
(* leaves no workspace object.                                             *)
(***************************************************************************)
EmptyTable == [structure |-> "none", find_replace |-> <<>>]

\* A validation that accepts every parameter file.
IsValidAlways(file) == TRUE

\* is_valid = parameter_obj._validate_parameter_file()
IsValid(file) == file.valid

Construct(ok) ==
    /\ phase = "new"
    /\ LET scan == ScanRepository(disk, FetchDeployed(remote))
           get == <<Call("GET", "/items", <<>>, NoBody, ok)>>
       IN IF ~IsValid(parameter_file)
          THEN /\ phase' = "failed"
               /\ last' = [NoOp EXCEPT !.op = "construct", !.err = "ParameterFileError"]
               /\ UNCHANGED <<environment_parameter, deployed_items, repository_items, scanned>>
          ELSE IF ~ok
          THEN /\ phase' = "failed"
               /\ environment_parameter' = parameter_file.table
               /\ last' = [NoOp EXCEPT !.op = "construct", !.err = "InvokeError",
                                       !.calls = get, !.tableLoaded = TRUE]
               /\ UNCHANGED <<deployed_items, repository_items, scanned>>
          ELSE /\ phase' = IF scan.err = "none" THEN "ready" ELSE "failed"
               /\ scanned' = [deployed |-> FetchDeployed(remote), items |-> scan.items,
                              err |-> scan.err]
               /\ environment_parameter' = parameter_file.table
               /\ deployed_items' = FetchDeployed(remote)
               /\ repository_items' = scan.items
               /\ last' = [NoOp EXCEPT !.op = "construct", !.err = scan.err,
                                       !.errPath = scan.errPath, !.skipped = scan.skipped,
                                       !.calls = get, !.tableLoaded = TRUE]
    /\ prev' = Summary(last)
    /\ UNCHANGED <<disk, parameter_file, remote, publish_item_name_exclude_regex, steps>>

(***************************************************************************)
(* _publish_item                                                           *)
(***************************************************************************)
\* constants.SHELL_ONLY_PUBLISH
SHELL_ONLY_PUBLISH == {"Environment", "Lakehouse", "Warehouse", "SQLDatabase"}

\* A publish that takes no type for shell-only.
IsShellOnlyNever(item_type) == FALSE

\* shell_only_publish = item_type in constants.SHELL_ONLY_PUBLISH
IsShellOnly(item_type) == item_type \in SHELL_ONLY_PUBLISH

\* The default of exclude_path, which matches no path.
ExcludeDefault == "^(?!.*)"

\* re.match(pattern, s) for the patterns and the names of the model.
RegexMatches == {<<"nb", "nb.py">>, <<"^B", "B">>, <<"img", "img.bin">>}

ReMatch(pattern, s) == <<pattern, s>> \in RegexMatches

\* func_process_file(self, item, file): None, or a processor that appends a
\* reference to the item with logical id "a".
ApplyProcessor(func_process_file, item, file) ==
    IF func_process_file = None THEN file.contents ELSE file.contents \o <<"a">>

\* File.base64_payload
Base64Payload(file) ==
    [path |-> file.relative_path, payload |-> [b64 |-> file.contents],
     payloadType |-> "InlineBase64"]

\* A pipeline that substitutes parameters before it resolves logical ids.
RewriteTextParametersFirst(repo, table, item, file, contents) ==
    LET substituted == ReplaceParameters(table, contents, item.type, item.name, file.file_path)
        resolved == ReplaceLogicalIds(repo, substituted)
    IN IF resolved.err # "none" THEN [err |-> resolved.err, contents |-> contents]
       ELSE [err |-> "none", contents |-> ReplaceWorkspaceIds(resolved.text)]

\* Lines 441-443 on the contents the processor left: [err, contents].
RewriteText(repo, table, item, file, contents) ==
    LET resolved == ReplaceLogicalIds(repo, contents)
    IN IF resolved.err # "none" THEN [err |-> resolved.err, contents |-> contents]
       ELSE [err |-> "none",
             contents |-> ReplaceWorkspaceIds(
                              ReplaceParameters(table, resolved.text, item.type, item.name,
                                                file.file_path))]

\* A publish that excludes no file.
PathExcludedNever(exclude_path, file) == FALSE

\* re.match(exclude_path, file.relative_path)
PathExcluded(exclude_path, file) == ReMatch(exclude_path, file.relative_path)

\* A publish that takes no file for the .platform file.
IsMarkerFileNever(file) == FALSE

\* str(file.file_path).endswith(".platform")
IsMarkerFile(file) == file.name = ".platform"

\* One iteration of the loop of lines 436-444: [err, file, parts].
ProcessFile(repo, table, item, file, exclude_path, func_process_file) ==
    IF PathExcluded(exclude_path, file)
    THEN [err |-> "none", file |-> file, parts |-> <<>>]
    ELSE IF file.type = "text"
    THEN LET processed == ApplyProcessor(func_process_file, item, file)
         IN IF ~IsMarkerFile(file)
            THEN LET r == RewriteText(repo, table, item, file, processed)
                     done == [file EXCEPT !.contents = r.contents]
                 IN [err |-> r.err, file |-> done,
                     parts |-> IF r.err = "none" THEN <<Base64Payload(done)>> ELSE <<>>]
            ELSE LET done == [file EXCEPT !.contents = processed]
                 IN [err |-> "none", file |-> done, parts |-> <<Base64Payload(done)>>]
    ELSE [err |-> "none", file |-> file, parts |-> <<Base64Payload(file)>>]

\* The loop itself; an exception leaves the remaining files untouched.
RECURSIVE ProcessFilesFrom(_, _, _, _, _, _, _)
ProcessFilesFrom(acc, files, repo, table, item, exclude_path, func_process_file) ==
    IF files = <<>> THEN acc
    ELSE IF acc.err # "none" THEN [acc EXCEPT !.files = @ \o files]
    ELSE LET r == ProcessFile(repo, table, item, Head(files), exclude_path, func_process_file)
         IN ProcessFilesFrom([err |-> r.err, files |-> Append(acc.files, r.file),
                              parts |-> acc.parts \o r.parts],
                             Tail(files), repo, table, item, exclude_path, func_process_file)

\* Lines 424-447: the request bodies.  definition_body is bound only on the
\* file-based branch.
BuildBodies(repo, table, item, exclude_path, func_process_file, creation_payload) ==
    LET metadata_body == ("displayName" :> item.name) @@ ("type" :> item.type)
        shell_only_publish == IsShellOnly(item.type)
        loop == ProcessFilesFrom([err |-> "none", files |-> <<>>, parts |-> <<>>],
                                 item.item_files, repo, table, item, exclude_path,
                                 func_process_file)
        definition_body == "definition" :> [parts |-> loop.parts]
    IN IF creation_payload # None
       THEN [err |-> "none", files |-> item.item_files, definition_bound |-> FALSE,
             definition_body |-> NoBody, metadata_body |-> metadata_body,
             combined_body |-> metadata_body @@ ("creationPayload" :> creation_payload)]
       ELSE IF shell_only_publish
       THEN [err |-> "none", files |-> item.item_files, definition_bound |-> FALSE,
             definition_body |-> NoBody, metadata_body |-> metadata_body,
             combined_body |-> metadata_body]
       ELSE [err |-> loop.err, files |-> loop.files, definition_bound |-> TRUE,
             definition_body |-> definition_body, metadata_body |-> metadata_body,
             combined_body |-> metadata_body @@ definition_body]

\* A publish that takes no item for deployed.
IsDeployedNever(item_guid) == FALSE

\* is_deployed = bool(item_guid)
IsDeployed(item_guid) == item_guid # <<>>

\* A create that does not write the returned id back to the item.
GuidAfterCreateDropped(item_guid, created) == item_guid

\* self.repository_items[item_type][item_name].guid = item_guid, after a create
GuidAfterCreate(item_guid, created) == created

\* metadata_body.pop("type", None)
DictPop(body, key) == [k \in DOMAIN body \ {key} |-> body[k]]

\* Lines 452-483: the call the item's deployment state selects, and what it
\* leaves: [err, calls, guid, remote].
Dispatch(r, item, bodies, ok) ==
    LET item_guid == item.guid
        is_deployed == IsDeployed(item_guid)
        shell_only_publish == IsShellOnly(item.type)
    IN IF ~is_deployed
       THEN [err |-> IF ok THEN "none" ELSE "InvokeError",
             calls |-> <<Call("POST", "/items", <<>>, bodies.combined_body, ok)>>,
             guid |-> IF ok THEN GuidAfterCreate(item_guid, CreatedId(r)) ELSE item_guid,
             remote |-> IF ok THEN AfterCreate(r, item.type, item.name) ELSE r]
       ELSE IF ~shell_only_publish
       THEN IF ~bodies.definition_bound
            THEN [err |-> "UnboundLocalError", calls |-> <<>>, guid |-> item_guid, remote |-> r]
            ELSE [err |-> IF ok THEN "none" ELSE "InvokeError",
                  calls |-> <<Call("POST", "/items/{guid}/updateDefinition?updateMetadata=True",
                                   item_guid, bodies.definition_body, ok)>>,
                  guid |-> item_guid, remote |-> r]
       ELSE [err |-> IF ok THEN "none" ELSE "InvokeError",
             calls |-> <<Call("PATCH", "/items/{guid}", item_guid,
                              DictPop(bodies.metadata_body, "type"), ok)>>,
             guid |-> item_guid, remote |-> r]

\* The call the dispatch is about to make, for the service to accept or refuse.
CanServePublish(r, item) ==
    IF item.guid = <<>> THEN CanServe(r, "POST", "/items", <<>>, item.type, item.name)
    ELSE CanServe(r, "POST", "/items/{guid}", item.guid, item.type, item.name)

\* A publish that never filters an item by its name.
NameExcludedNever(regex, item_name) == FALSE

\* Lines 411-416: the filter on the item name, when one is set.
NameExcluded(regex, item_name) == regex # None /\ ReMatch(regex, item_name)

PublishItem(item_name, item_type, exclude_path, func_process_file, creation_payload, ok) ==
    /\ phase = "ready"
    /\ steps < MaxOps
    /\ LET given == [NoOp EXCEPT !.op = "publish", !.type = item_type, !.name = item_name,
                                 !.exclude_path = exclude_path,
                                 !.func_process_file = func_process_file,
                                 !.creation_payload = creation_payload]
       IN IF NameExcluded(publish_item_name_exclude_regex, item_name)
          THEN /\ last' = [given EXCEPT !.excluded = TRUE]
               /\ UNCHANGED <<repository_items, remote>>
          ELSE IF ~HasItem(repository_items, item_type, item_name)
          THEN /\ last' = [given EXCEPT !.err = "KeyError"]
               /\ UNCHANGED <<repository_items, remote>>
          ELSE LET item == GetItem(repository_items, item_type, item_name)
                   bodies == BuildBodies(repository_items, environment_parameter, item,
                                         exclude_path, func_process_file, creation_payload)
                   rewritten == [item EXCEPT !.item_files = bodies.files]
                   d == Dispatch(remote, item, bodies, ok)
               IN /\ \A i \in 1..Len(bodies.files) : Len(bodies.files[i].contents) <= MaxLen
                  /\ ok => CanServePublish(remote, item)
                  /\ IF bodies.err # "none"
                     THEN /\ repository_items' = PutItem(repository_items, rewritten)
                          /\ remote' = remote
                          /\ last' = [given EXCEPT !.err = bodies.err,
                                                   !.guidBefore = item.guid,
                                                   !.guidAfter = item.guid,
                                                   !.filesBefore = item.item_files]
                     ELSE /\ repository_items' =
                                 PutItem(repository_items, [rewritten EXCEPT !.guid = d.guid])
                          /\ remote' = d.remote
                          /\ last' = [given EXCEPT !.err = d.err, !.calls = d.calls,
                                                   !.guidBefore = item.guid,
                                                   !.guidAfter = d.guid,
                                                   !.filesBefore = item.item_files]
    /\ prev' = Summary(last)
    /\ steps' = steps + 1
    /\ UNCHANGED <<phase, disk, parameter_file, environment_parameter, deployed_items,
                   publish_item_name_exclude_regex, scanned>>

(***************************************************************************)
(* _unpublish_item                                                         *)
(***************************************************************************)
\* An unpublish that lets the exception of the DELETE call escape.
DeleteOutcomeRaised(ok) == IF ok THEN "none" ELSE "InvokeError"

\* try: invoke(DELETE) ... except Exception: logger.warning(...): the method
\* returns normally whether or not the call raised.
DeleteOutcome(ok) == "none"

UnpublishItem(item_name, item_type, ok) ==
    /\ phase = "ready"
    /\ steps < MaxOps
    /\ LET given == [NoOp EXCEPT !.op = "unpublish", !.type = item_type, !.name = item_name]
       IN IF ~HasItem(deployed_items, item_type, item_name)
          THEN /\ last' = [given EXCEPT !.err = "KeyError"]
               /\ remote' = remote
          ELSE LET item_guid == GetItem(deployed_items, item_type, item_name).guid
               IN /\ ok => CanServe(remote, "DELETE", "/items/{guid}", item_guid, item_type,
                                    item_name)
                  /\ remote' = IF ok THEN AfterDelete(remote, item_guid) ELSE remote
                  /\ last' = [given EXCEPT !.err = DeleteOutcome(ok),
                                           !.calls = <<Call("DELETE", "/items/{guid}",
                                                            item_guid, NoBody, ok)>>,
                                           !.guidBefore = item_guid,
                                           !.guidAfter = item_guid]
    /\ prev' = Summary(last)
    /\ steps' = steps + 1
    /\ UNCHANGED <<phase, disk, parameter_file, environment_parameter, deployed_items,
                   repository_items, publish_item_name_exclude_regex, scanned>>

(***************************************************************************)
(* _convert_id_to_name and _convert_path_to_id.  What a call returns is    *)
(* recorded as `returned`: "None", "name" with returned_name, or           *)
(* "logical_id" with returned_id; "nothing" when it raised.                *)
(***************************************************************************)
\* The items of one type, in the order of by_type.values().
ItemsOfType(d, item_type) == SelectSeq(d, LAMBDA x : x.type = item_type)

\* lookup_id of line 373
LookupId(item_details, lookup_type) ==
    IF lookup_type = "Repository" THEN item_details.logical_id ELSE item_details.guid

\* Lines 370-377: [err, returned, returned_name].
IdToName(lookup_dict, item_type, generic_id, lookup_type) ==
    IF ~HasType(lookup_dict, item_type)
    THEN [err |-> "KeyError", returned |-> "nothing", returned_name |-> None]
    ELSE LET items == ItemsOfType(lookup_dict, item_type)
             hits == {i \in 1..Len(items) : LookupId(items[i], lookup_type) = generic_id}
         IN IF hits = {}
            THEN [err |-> "none", returned |-> "None", returned_name |-> None]
            ELSE [err |-> "none", returned |-> "name",
                  returned_name |-> items[CHOOSE i \in hits : \A j \in hits : i <= j].name]

ConvertIdToName(item_type, generic_id, lookup_type) ==
    /\ phase = "ready"
    /\ steps < MaxOps
    /\ LET lookup_dict == IF lookup_type = "Repository" THEN repository_items
                          ELSE deployed_items
           r == IdToName(lookup_dict, item_type, generic_id, lookup_type)
       IN last' = [NoOp EXCEPT !.op = "id_to_name", !.type = item_type,
                               !.generic_id = generic_id, !.lookup_type = lookup_type,
                               !.err = r.err, !.returned = r.returned,
                               !.returned_name = r.returned_name]
    /\ prev' = Summary(last)
    /\ steps' = steps + 1
    /\ UNCHANGED <<phase, disk, parameter_file, remote, environment_parameter, deployed_items,
                   repository_items, publish_item_name_exclude_regex, scanned>>

\* Lines 387-391: [err, returned, returned_id].
PathToId(repo, item_type, path) ==
    IF ~HasType(repo, item_type)
    THEN [err |-> "KeyError", returned |-> "nothing", returned_id |-> <<>>]
    ELSE LET items == ItemsOfType(repo, item_type)
             hits == {i \in 1..Len(items) : items[i].path = path}
         IN IF hits = {}
            THEN [err |-> "none", returned |-> "None", returned_id |-> <<>>]
            ELSE [err |-> "none", returned |-> "logical_id",
                  returned_id |-> items[CHOOSE i \in hits : \A j \in hits : i <= j].logical_id]

ConvertPathToId(item_type, path) ==
    /\ phase = "ready"
    /\ steps < MaxOps
    /\ LET r == PathToId(repository_items, item_type, path)
       IN last' = [NoOp EXCEPT !.op = "path_to_id", !.type = item_type, !.path = path,
                               !.err = r.err, !.returned = r.returned,
                               !.returned_id = r.returned_id]
    /\ prev' = Summary(last)
    /\ steps' = steps + 1
    /\ UNCHANGED <<phase, disk, parameter_file, remote, environment_parameter, deployed_items,
                   repository_items, publish_item_name_exclude_regex, scanned>>

(***************************************************************************)
(* The caller of the workspace object sets the name filter by assigning    *)
(* the attribute that __init__ left at None.                               *)
(***************************************************************************)
SetPublishItemNameExcludeRegex(regex) ==
    /\ phase = "ready"
    /\ publish_item_name_exclude_regex = None
    /\ publish_item_name_exclude_regex' = regex
    /\ UNCHANGED <<phase, disk, parameter_file, remote, environment_parameter, deployed_items,
                   repository_items, last, prev, scanned, steps>>

(***************************************************************************)
(* Initial states and specifications.                                      *)
(***************************************************************************)
NoRules == [valid |-> TRUE, table |-> EmptyTable]

InvalidParameterFile == [valid |-> FALSE, table |-> EmptyTable]

\* find "f", replaced by "r" in PPE, for Notebook items only.
NotebookRule == Rule(<<"f">>, "PPE" :> <<"r">>, "Notebook", None, NoPath)

NewRules(rules) == [valid |-> TRUE, table |-> [structure |-> "new", find_replace |-> rules]]

OldRules(rules) == [valid |-> TRUE, table |-> [structure |-> "old", find_replace |-> rules]]

\* The ids of the items the workspace already holds when the run starts.
DeployedId(name) ==
    IF name = "A" THEN <<"g1">> ELSE IF name = "B" THEN <<"g2">>
    ELSE IF name = "S" THEN <<"g3">> ELSE IF name = "O" THEN <<"g4">> ELSE <<"g5">>

ItemType(name) ==
    IF name = "S" THEN "Lakehouse" ELSE IF name = "P" THEN "DataPipeline" ELSE "Notebook"

InitialRemote(names) ==
    [items |-> {RemoteItem(ItemType(n), n, DeployedId(n)) : n \in names}, issued |-> 0]

\* The repository of the engine runs: Notebook A, Notebook B whose file
\* refers to A by logical id, and the shell-only Lakehouse S.
EngineDisk ==
    << Folder("d1", "ok", "Notebook", "A", <<"a">>, <<DiskFile("nb.py", "text", <<"c", "f">>)>>),
       Folder("d2", "ok", "Notebook", "B", <<"b">>, <<DiskFile("nb.py", "text", <<"a", "c">>)>>),
       Folder("d3", "ok", "Lakehouse", "S", <<"s">>, <<DiskFile("lh.json", "text", <<"a">>)>>) >>

InitCommon ==
    /\ phase = "new"
    /\ environment_parameter = EmptyTable
    /\ deployed_items = <<>>
    /\ repository_items = <<>>
    /\ publish_item_name_exclude_regex = None
    /\ last = NoOp
    /\ prev = Summary(NoOp)
    /\ scanned = [deployed |-> <<>>, items |-> <<>>, err |-> "none"]
    /\ steps = 0

Init ==
    /\ InitCommon
    /\ disk = EngineDisk
    /\ parameter_file \in {NoRules, NewRules(<<NotebookRule>>), InvalidParameterFile}
    /\ remote \in {InitialRemote(names) : names \in SUBSET {"A", "B", "S", "O"}}

Next ==
    \/ \E ok \in BOOLEAN : Construct(ok)
    \/ \E ok \in BOOLEAN : RefreshDeployedItems(ok)
    \/ RefreshRepositoryItems
    \/ \E n \in {"A", "B", "S", "O"}, cp \in {None, "cp"}, ok \in BOOLEAN :
           PublishItem(n, ItemType(n), ExcludeDefault, None, cp, ok)
    \/ \E n \in {"A", "B", "S", "O"}, ok \in BOOLEAN : UnpublishItem(n, ItemType(n), ok)
    \/ SetPublishItemNameExcludeRegex("^B")

Spec == Init /\ [][Next]_vars

(***************************************************************************)
(* Properties of the publish / unpublish engine, checked under Spec.       *)
(***************************************************************************)
\* The last operation issued a call and the service answered it.
LastCallOk == last.calls # <<>> /\ last.calls[1].ok

\* The last operation was a _publish_item that went past the name filter and
\* found its item.
LastPublished == last.op = "publish" /\ ~last.excluded /\ last.err # "KeyError"

UpdateKinds == {"updateDefinition", "updateMetadata"}

\* The texts carried by the definition parts of a request body.
UploadedTexts(body) ==
    [i \in 1..Len(body["definition"].parts) |-> body["definition"].parts[i].payload.b64]

\* C1: when an item whose guid was empty is published twice in a row and both
\* remote calls succeed, the first call is the create, the second is an
\* update addressed to the guid the create returned, and that guid is the
\* one the item still holds.
C1_IdempotentRepublish ==
    /\ (LastPublished /\ LastCallOk /\ last.guidBefore = <<>>)
       => /\ Len(last.calls) = 1
          /\ CallKind(last.calls[1]) = "create"
          /\ last.guidAfter # <<>>
          /\ GetItem(repository_items, last.type, last.name).guid = last.guidAfter
    /\ (/\ prev.op = "publish" /\ prev.ok /\ prev.guidBefore = <<>>
        /\ LastPublished /\ last.name = prev.name /\ last.type = prev.type
        /\ LastCallOk)
       => /\ prev.kind = "create"
          /\ Len(last.calls) = 1
          /\ CallKind(last.calls[1]) \in UpdateKinds
          /\ last.calls[1].guid = prev.guidAfter
          /\ last.guidBefore = prev.guidAfter
          /\ last.guidAfter = prev.guidAfter
          /\ GetItem(repository_items, last.type, last.name).guid = prev.guidAfter

C1_Witness ==
    /\ prev.op = "publish" /\ prev.ok /\ prev.kind = "create" /\ prev.guidBefore = <<>>
    /\ LastPublished /\ last.name = prev.name /\ LastCallOk
    /\ CallKind(last.calls[1]) = "updateDefinition"

\* A text file of the item, other than .platform, mentioned `id` when the
\* last publish began.
MentionedBefore(id) ==
    \E i \in 1..Len(last.filesBefore) :
        /\ last.filesBefore[i].type = "text"
        /\ last.filesBefore[i].name # ".platform"
        /\ Contains(last.filesBefore[i].contents, id)

\* The last operation published, through its files, an item other than x
\* whose text mentioned x's logical id.
PublishedReferenceTo(x) ==
    /\ LastPublished
    /\ last.creation_payload = None
    /\ last.func_process_file = None
    /\ last.type \notin SHELL_ONLY_PUBLISH
    /\ ~(last.type = x.type /\ last.name = x.name)
    /\ MentionedBefore(x.logical_id)

\* C2: publishing A (created in this run) and then B, whose text mentions A's
\* logical id, sends a call whose content holds the guid the create returned
\* for A and no longer A's logical id; publishing B while A has no guid
\* raises ParsingError and sends nothing.
C2_CreateThenResolve ==
    \A k \in 1..Len(repository_items) :
        LET x == repository_items[k]
        IN /\ (/\ PublishedReferenceTo(x)
               /\ prev.op = "publish" /\ prev.kind = "create" /\ prev.ok
               /\ prev.type = x.type /\ prev.name = x.name)
              => /\ x.guid = prev.guidAfter
                 /\ Len(last.calls) = 1
                 /\ last.err = (IF last.calls[1].ok THEN "none" ELSE "InvokeError")
                 /\ \E i \in DOMAIN UploadedTexts(last.calls[1].body) :
                        Contains(UploadedTexts(last.calls[1].body)[i], prev.guidAfter)
                 /\ \A i \in DOMAIN UploadedTexts(last.calls[1].body) :
                        ~Contains(UploadedTexts(last.calls[1].body)[i], x.logical_id)
           /\ (PublishedReferenceTo(x) /\ x.guid = <<>>)
              => last.err = "ParsingError" /\ last.calls = <<>>

C2_Witness ==
    /\ prev.op = "publish" /\ prev.kind = "create" /\ prev.ok /\ prev.name = "A"
    /\ LastPublished /\ last.name = "B" /\ LastCallOk
    /\ PublishedReferenceTo(GetItem(repository_items, "Notebook", "A"))
    /\ Contains(UploadedTexts(last.calls[1].body)[2], prev.guidAfter)

\* B published before A: the ParsingError case of C2 is reached.
C2_WitnessBefore ==
    /\ LastPublished /\ last.name = "B" /\ last.err = "ParsingError"
    /\ GetItem(repository_items, "Notebook", "A").guid = <<>>

\* C3: publishing a deployed item of a type that is not shell-only, with or
\* without a creation payload, sends exactly one updateDefinition call that
\* carries the file-based definition and no creation payload.
C3_UpdateDefinitionAlways ==
    (/\ LastPublished /\ last.guidBefore # <<>>
     /\ last.type \notin SHELL_ONLY_PUBLISH
     /\ last.err # "ParsingError")
    => /\ Len(last.calls) = 1
       /\ CallKind(last.calls[1]) = "updateDefinition"
       /\ "definition" \in DOMAIN last.calls[1].body
       /\ "creationPayload" \notin DOMAIN last.calls[1].body

\* C4: a publish of a shell-only item never sends a body with a definition
\* nor an updateDefinition call, and when the item has a guid it sends one
\* PATCH /items/{guid} whose body has displayName and no type.
C4_ShellOnlyNoDefinition ==
    (LastPublished /\ last.type \in SHELL_ONLY_PUBLISH)
    => /\ \A i \in 1..Len(last.calls) :
              /\ "definition" \notin DOMAIN last.calls[i].body
              /\ CallKind(last.calls[i]) # "updateDefinition"
       /\ last.guidBefore # <<>>
          => /\ Len(last.calls) = 1
             /\ last.calls[1].method = "PATCH"
             /\ last.calls[1].path = "/items/{guid}"
             /\ last.calls[1].guid = last.guidBefore
             /\ "displayName" \in DOMAIN last.calls[1].body
             /\ last.calls[1].body["displayName"] = last.name
             /\ "type" \notin DOMAIN last.calls[1].body

C4_Witness ==
    /\ LastPublished /\ last.type \in SHELL_ONLY_PUBLISH /\ last.guidBefore # <<>>
    /\ LastCallOk /\ last.calls[1].method = "PATCH"
    /\ prev.op = "publish" /\ prev.kind = "create" /\ prev.name = last.name

\* C5: an _unpublish_item whose DELETE call raises returns normally, and the
\* run goes on: the operation after it, on another item, is carried out.
C5_UnpublishFailureNotFatal ==
    (last.op = "unpublish" /\ last.calls # <<>> /\ ~last.calls[1].ok)
    => /\ last.err = "none"
       /\ phase = "ready"
       /\ CallKind(last.calls[1]) = "delete"

C5_Witness ==
    /\ prev.op = "unpublish" /\ prev.kind = "delete" /\ ~prev.ok /\ prev.err = "none"
    /\ last.op \in {"publish", "unpublish"} /\ last.name # prev.name
    /\ LastCallOk

(***************************************************************************)
(* Runs over varied repository directories: ScanSpec.                      *)
(***************************************************************************)
SlotName(i) == IF i = 1 THEN "A" ELSE IF i = 2 THEN "B" ELSE "S"

SlotPath(i) == IF i = 1 THEN "d1" ELSE IF i = 2 THEN "d2" ELSE "d3"

SlotLogicalId(i) == IF i = 1 THEN <<"a">> ELSE IF i = 2 THEN <<"b">> ELSE <<"s">>

OneFile == <<DiskFile("nb.py", "text", <<"c">>)>>

\* What may be found in the i-th folder of the walk.
SlotFolders(i) ==
    {Folder(SlotPath(i), mk, ItemType(SlotName(i)), SlotName(i), SlotLogicalId(i), OneFile) :
        mk \in {"none", "ok", "goneBeforeIter", "goneBeforeOpen", "badjson", "notobject",
                "nometadata", "notype", "noname", "noconfig"}}
    \cup
    {Folder(SlotPath(i), mk, ItemType(SlotName(i)), SlotName(i), SlotLogicalId(i), <<>>) :
        mk \in {"ok", "goneBeforeIter"}}

ScanDisks == {d \in [1..MaxFolders -> UNION {SlotFolders(i) : i \in 1..MaxFolders}] :
                 \A i \in 1..MaxFolders : d[i] \in SlotFolders(i)}

\* A workspace that holds Notebook A and a DataPipeline named B, the name
\* of a Notebook of the repository.
OtherTypeRemote ==
    [items |-> {RemoteItem("Notebook", "A", DeployedId("A")),
                RemoteItem("DataPipeline", "B", DeployedId("B"))},
     issued |-> 0]

InitScan ==
    /\ InitCommon
    /\ disk \in ScanDisks
    /\ parameter_file = NoRules
    /\ remote \in {InitialRemote({}), InitialRemote({"A"}), OtherTypeRemote}

NextScan ==
    \/ \E ok \in BOOLEAN : Construct(ok)
    \/ \E ok \in BOOLEAN : RefreshDeployedItems(ok)
    \/ RefreshRepositoryItems
    \/ \E n \in {"A", "B"}, ok \in BOOLEAN :
           PublishItem(n, ItemType(n), ExcludeDefault, None, None, ok)

ScanSpec == InitScan /\ [][NextScan]_vars

\* The last operation walked the repository directory.
ScanRan == last.op = "scan" \/ (last.op = "construct" /\ LastCallOk)

\* The walk got as far as the i-th folder.
ScanReached(i) ==
    last.err = "none" \/ \E j \in i..Len(disk) : disk[j].path = last.errPath

Registered(path) == \E k \in 1..Len(repository_items) : repository_items[k].path = path

\* C6: a folder whose .platform file is missing when it is read, or is not
\* JSON, ends the scan with a ParsingError for that folder; it is neither
\* skipped nor registered.
C6_UnreadableMarkerIsFatal ==
    ScanRan
    => \A i \in 1..Len(disk) :
           (/\ disk[i].marker \in {"goneBeforeIter", "goneBeforeOpen", "badjson"}
            /\ ~DirectoryEmpty(disk[i])
            /\ ScanReached(i))
           => /\ last.err = "ParsingError"
              /\ last.errPath = disk[i].path
              /\ ~Registered(disk[i].path)

\* C7: a folder holding the .platform file and nothing else is skipped with
\* a warning: no item is registered for it and no error is raised for it.
C7_MarkerOnlyFolderSkipped ==
    ScanRan
    => \A i \in 1..Len(disk) :
           (disk[i].marker = "ok" /\ disk[i].files = <<>> /\ ScanReached(i))
           => /\ disk[i].path \in last.skipped
              /\ ~Registered(disk[i].path)
              /\ last.errPath # disk[i].path

\* C8: a .platform file that is JSON but has no metadata.type or no
\* metadata.displayName, or no metadata object at all, ends the scan with a
\* ParsingError, and no item is registered for the folder.
C8_IncompleteMetadataIsParsingError ==
    ScanRan
    => \A i \in 1..Len(disk) :
           (disk[i].marker \in {"nometadata", "notype", "noname"} /\ ScanReached(i))
           => /\ last.err = "ParsingError"
              /\ last.errPath = disk[i].path
              /\ ~Registered(disk[i].path)

\* C9: a scan of the unchanged directory, run while the deployed collection
\* is what it was at the scan before, rebuilds exactly the collection that
\* scan built (keys, logical ids, guids, files), whatever publishes did to
\* the collection in between.
C9_ScanIdempotent ==
    [][(last'.op = "scan" /\ scanned.deployed = deployed_items /\ disk' = disk)
       => /\ repository_items' = scanned.items
          /\ scanned'.items = scanned.items
          /\ last'.err = scanned.err]_vars

\* A rescan right after a publish created an item: the guid the create wrote
\* is gone again, as after the first scan.
C9_Witness ==
    /\ last.op = "scan" /\ last.err = "none"
    /\ prev.op = "publish" /\ prev.kind = "create" /\ prev.ok
    /\ scanned.deployed = deployed_items
    /\ GetItem(repository_items, prev.type, prev.name).guid = <<>>

(***************************************************************************)
(* Runs over varied file contents and parameter tables: PipelineSpec.      *)
(* Notebook A (logical id "a") has a text file and a binary file,          *)
(* DataPipeline P (logical id "b") a text file.                            *)
(***************************************************************************)
PipelineDisk(contentsA, contentsP) ==
    << Folder("d1", "ok", "Notebook", "A", <<"a">>,
              <<DiskFile("nb.py", "text", contentsA), DiskFile("img.bin", "binary", <<"a", "f", "w", "z", "q">>)>>),
       Folder("d2", "ok", "DataPipeline", "P", <<"b">>,
              <<DiskFile("pl.json", "text", contentsP)>>) >>

\* "f" becomes a reference to the placeholder workspace.
PlaceholderRule == Rule(<<"f">>, "PPE" :> <<"w", "z", "q">>, None, None, NoPath)

\* A rule whose find token is the logical id of P.
LogicalIdRule == Rule(<<"b">>, "PPE" :> <<"r">>, None, None, NoPath)

\* Rules for "f" that state an item name, a file path, a type and a name that
\* no item has together, and a value for another environment only.
NameRule == Rule(<<"f">>, "PPE" :> <<"r">>, None, "A", NoPath)

PathRule == Rule(<<"f">>, "PPE" :> <<"r">>, None, None, <<"d2", "pl.json">>)

TypeAndNameRule == Rule(<<"f">>, "PPE" :> <<"r">>, "Notebook", "P", NoPath)

OtherEnvironmentRule == Rule(<<"f">>, "DEV" :> <<"r">>, None, None, NoPath)

\* "c" becomes the find token of the rule after it.
ChainRule == Rule(<<"c">>, "PPE" :> <<"f">>, None, None, NoPath)

\* A rule whose value holds its own find token.
GrowingRule == Rule(<<"f">>, "PPE" :> <<"f", "r">>, None, None, NoPath)

PipelineTables ==
    {NewRules(<<GrowingRule>>), NewRules(<<NotebookRule, ChainRule>>), NoRules, NewRules(<<PlaceholderRule>>), NewRules(<<LogicalIdRule>>),
     NewRules(<<NotebookRule>>), OldRules(<<Rule(<<"f">>, "PPE" :> <<"r">>, None, None, NoPath)>>),
     NewRules(<<NameRule>>), NewRules(<<PathRule>>), NewRules(<<TypeAndNameRule>>),
     NewRules(<<OtherEnvironmentRule>>), NewRules(<<ChainRule, NotebookRule>>)}

InitPipeline ==
    /\ InitCommon
    /\ disk \in {PipelineDisk(cA, <<"a", "f">>) :
                     cA \in {<<"b", "f">>, <<"w", "z", "q", "f">>, <<"c">>, <<"f", "c", "f">>,
                             <<"z", "w", "w", "z", "q">>}}
                \cup {PipelineDisk(<<"c">>, cP) :
                         cP \in {<<"w", "x", "q">>, <<"w", "x", "q", "w", "z", "q">>}}
    /\ parameter_file \in PipelineTables
    /\ remote \in {InitialRemote({"A", "P"}), InitialRemote({"P"})}

\* The exclude_path and func_process_file arguments the publishes are given.
PublishOptions ==
    {<<ExcludeDefault, None>>, <<ExcludeDefault, "ref">>, <<"nb", "ref">>, <<"img", None>>}

NextPipeline ==
    \/ \E ok \in BOOLEAN : Construct(ok)
    \/ \E n \in {"A", "P"}, opt \in PublishOptions, ok \in BOOLEAN :
           PublishItem(n, ItemType(n), opt[1], opt[2], None, ok)

PipelineSpec == InitPipeline /\ [][NextPipeline]_vars

\* The last operation published an item through its files and the file loop
\* ran to its end.
LastUploadedFiles ==
    /\ LastPublished
    /\ last.creation_payload = None
    /\ last.type \notin SHELL_ONLY_PUBLISH
    /\ last.err # "ParsingError"

\* The collection as the last publish found it: the item's guid before the
\* call.
RepositoryBefore ==
    PutItem(repository_items,
            [GetItem(repository_items, last.type, last.name) EXCEPT !.guid = last.guidBefore])

Excluded(i) == ReMatch(last.exclude_path, last.filesBefore[i].relative_path)

\* The place among the uploaded parts of the i-th file of the item.
PartIndex(i) == Cardinality({j \in 1..i : ~Excluded(j)})

\* Processor, then logical ids, then parameters, then workspace ids.
InOrder(i) ==
    LET file == last.filesBefore[i]
        item == GetItem(repository_items, last.type, last.name)
        stage0 == IF last.func_process_file = None THEN file.contents
                  ELSE ApplyProcessor(last.func_process_file, item, file)
        stage1 == ReplaceLogicalIds(RepositoryBefore, stage0).text
        stage2 == ReplaceParameters(environment_parameter, stage1, last.type, last.name,
                                    file.file_path)
    IN ReplaceWorkspaceIds(stage2)

\* C10: every text file of the published item that is neither .platform nor
\* excluded holds, and uploads, the result of the processor, then logical-id
\* resolution, then parameter substitution, then the workspace-id rewrite,
\* each applied to the output of the one before.
C10_PipelineOrder ==
    LastUploadedFiles
    => /\ Len(last.calls) = 1
       /\ \A i \in 1..Len(last.filesBefore) :
              (/\ last.filesBefore[i].type = "text"
               /\ last.filesBefore[i].name # ".platform"
               /\ ~Excluded(i))
              => /\ GetItem(repository_items, last.type, last.name).item_files[i].contents
                        = InOrder(i)
                 /\ UploadedTexts(last.calls[1].body)[PartIndex(i)] = InOrder(i)

\* A file on which every stage acted: the processor added "a", logical ids
\* "b" and "a" became guids, "f" became a placeholder reference and the
\* reference was rewritten to the target workspace.
C10_Witness ==
    /\ LastUploadedFiles /\ LastCallOk
    /\ last.name = "A" /\ last.func_process_file # None
    /\ last.filesBefore[2].contents = <<"b", "f">>
    /\ UploadedTexts(last.calls[1].body)[2] = <<"g5", "w", "t", "q", "g1">>

(***************************************************************************)
(* Find/replace of the new structure, checked under PipelineSpec.          *)
(***************************************************************************)
\* The text of the i-th file of the published item as parameter substitution
\* received it: after the processor and logical-id resolution.
ResolvedText(i) ==
    LET file == last.filesBefore[i]
        item == GetItem(repository_items, last.type, last.name)
    IN ReplaceLogicalIds(RepositoryBefore, ApplyProcessor(last.func_process_file, item, file)).text

\* The rule states no scope field that differs from the item or the file.
ScopeMatches(rule, i) ==
    /\ rule.item_type = None \/ rule.item_type = last.type
    /\ rule.item_name = None \/ rule.item_name = last.name
    /\ rule.file_path = NoPath \/ rule.file_path = last.filesBefore[i].file_path

RuleApplies(rule, text, i) ==
    /\ Contains(text, rule.find_value)
    /\ environment \in DOMAIN rule.replace_value
    /\ ScopeMatches(rule, i)

AfterRule(rule, text, i) ==
    IF RuleApplies(rule, text, i)
    THEN StrReplace(text, rule.find_value, rule.replace_value[environment])
    ELSE text

\* The rules of a table of at most two rules, one after the other.
AfterRules(rules, text, i) ==
    IF Len(rules) = 0 THEN text
    ELSE IF Len(rules) = 1 THEN AfterRule(rules[1], text, i)
    ELSE AfterRule(rules[2], AfterRule(rules[1], text, i), i)

RewrittenFile(i) ==
    /\ last.filesBefore[i].type = "text"
    /\ last.filesBefore[i].name # ".platform"
    /\ ~Excluded(i)

\* C11: with a new-structure table, a rule's find token is replaced in a
\* file's text exactly when the token occurs in the text, the rule has a
\* value for the active environment and every scope field the rule states
\* matches the item and the file; a rule that does not apply leaves the
\* token where it was, a rule that applies leaves no occurrence of it.
C11_ScopedFindReplace ==
    (LastUploadedFiles /\ environment_parameter.structure = "new")
    => \A i \in 1..Len(last.filesBefore) :
           RewrittenFile(i)
           => LET rules == environment_parameter.find_replace
                  text == ResolvedText(i)
                  sent == UploadedTexts(last.calls[1].body)[PartIndex(i)]
              IN /\ sent = ReplaceWorkspaceIds(AfterRules(rules, text, i))
                 /\ (Len(rules) = 1 /\ Contains(text, rules[1].find_value))
                    => IF RuleApplies(rules[1], text, i)
                       THEN /\ Contains(rules[1].replace_value[environment],
                                        rules[1].find_value)
                               \/ ~Contains(sent, rules[1].find_value)
                            /\ Contains(sent, ReplaceWorkspaceIds(
                                                  rules[1].replace_value[environment]))
                       ELSE Contains(sent, rules[1].find_value)

\* The Notebook rule met a DataPipeline file that holds its token and left
\* it alone.
C11_Witness ==
    /\ LastUploadedFiles /\ LastCallOk
    /\ environment_parameter.find_replace = <<NotebookRule>>
    /\ last.type = "DataPipeline"
    /\ last.filesBefore[2].contents = <<"a", "f">>
    /\ UploadedTexts(last.calls[1].body)[2] = <<"g1", "f">>

\* The same rule replaced both occurrences in a Notebook file.
C11_WitnessReplaced ==
    /\ LastUploadedFiles /\ LastCallOk
    /\ environment_parameter.find_replace = <<NotebookRule>>
    /\ last.type = "Notebook" /\ last.func_process_file = None
    /\ last.filesBefore[2].contents = <<"f", "c", "f">>
    /\ UploadedTexts(last.calls[1].body)[2] = <<"r", "c", "r">>

\* A rule that states a file path replaced the token in that file.
C11_WitnessPath ==
    /\ LastUploadedFiles /\ LastCallOk
    /\ environment_parameter.find_replace = <<PathRule>>
    /\ last.type = "DataPipeline"
    /\ last.filesBefore[2].contents = <<"a", "f">>
    /\ UploadedTexts(last.calls[1].body)[2] = <<"g1", "r">>

(***************************************************************************)
(* The workspace-id rewrite, checked under PipelineSpec.                   *)
(***************************************************************************)
\* The text of the i-th file as the workspace-id rewrite received it.
SubstitutedText(i) ==
    ReplaceParameters(environment_parameter, ResolvedText(i), last.type, last.name,
                      last.filesBefore[i].file_path)

\* The closing quote of a reference opened at k: the first "q" after k.
ClosingQuote(text, k) ==
    CHOOSE j \in (k + 1)..Len(text) : text[j] = "q" /\ \A m \in (k + 1)..(j - 1) : text[m] # "q"

\* A workspace reference opens at k: a "w" with a closing quote after it
\* that does not lie inside a reference opened before.
RECURSIVE ReferenceAt(_, _)
ReferenceAt(text, k) ==
    /\ text[k] = "w"
    /\ \E j \in (k + 1)..Len(text) : text[j] = "q"
    /\ \A j \in 1..(k - 1) : ReferenceAt(text, j) => ClosingQuote(text, j) < k

\* Position k holds the placeholder as the whole value of a reference.
PlaceholderValueAt(text, k) ==
    /\ k > 1 /\ k < Len(text)
    /\ <<text[k]>> = DEFAULT_WORKSPACE_ID
    /\ ReferenceAt(text, k - 1)
    /\ ClosingQuote(text, k - 1) = k + 1

C12_WitnessOutside ==
    /\ LastUploadedFiles /\ LastCallOk
    /\ last.name = "A" /\ last.func_process_file = None
    /\ last.filesBefore[2].contents = <<"z", "w", "w", "z", "q">>
    /\ UploadedTexts(last.calls[1].body)[2] = <<"z", "w", "w", "z", "q">>

(***************************************************************************)
(* The publish engine again, checked under Spec.                           *)
(***************************************************************************)
\* The step is a _publish_item call.
PublishStep == steps' = steps + 1 /\ last'.op = "publish"

\* C13: a _publish_item for an item whose name the name filter matches
\* returns at once: no remote call, no exception, no file rewritten, the
\* guid of every item and both collections as they were.
C13_NameFilterSkipsItem ==
    [][(/\ PublishStep
        /\ publish_item_name_exclude_regex # None
        /\ ReMatch(publish_item_name_exclude_regex, last'.name))
       => /\ last'.calls = <<>>
          /\ last'.err = "none"
          /\ last'.excluded
          /\ repository_items' = repository_items
          /\ deployed_items' = deployed_items
          /\ remote' = remote]_vars

\* Notebook B, not deployed and with a text file to rewrite, was filtered
\* out by its name.
C13_Witness ==
    /\ last.op = "publish" /\ last.name = "B" /\ last.excluded
    /\ HasItem(repository_items, "Notebook", "B")
    /\ GetItem(repository_items, "Notebook", "B").guid = <<>>
    /\ GetItem(repository_items, "Notebook", "A").guid # <<>>
    /\ GetItem(repository_items, "Notebook", "B").item_files[2].contents = <<"a", "c">>

\* C14: __init__ validates the parameter file before it fetches the deployed
\* items and before it scans the repository.  With an invalid file it ends
\* with ParameterFileError: no GET /items was sent, nothing was scanned and
\* both collections are empty.  Whenever the GET was sent, the table had
\* been validated and loaded.
C14_ValidationFirst ==
    last.op = "construct"
    => /\ ~parameter_file.valid
          => /\ last.err = "ParameterFileError"
             /\ phase = "failed"
             /\ last.calls = <<>>
             /\ ~last.tableLoaded
             /\ deployed_items = <<>>
             /\ repository_items = <<>>
             /\ scanned.items = <<>>
       /\ last.calls # <<>> => (parameter_file.valid /\ last.tableLoaded)
       /\ repository_items # <<>> => (last.calls # <<>> /\ last.calls[1].ok)

\* An invalid parameter file in front of a workspace with deployed items
\* and a repository with item folders.
C14_Witness ==
    /\ last.op = "construct" /\ last.err = "ParameterFileError"
    /\ remote.items # {}
    /\ \E i \in 1..Len(disk) : disk[i].marker = "ok"

\* The operation before the last one was an _unpublish_item whose DELETE
\* call succeeded, and the last one a _publish_item of the same item that
\* got as far as a remote call.
PublishedAfterDelete ==
    /\ prev.op = "unpublish" /\ prev.kind = "delete" /\ prev.ok
    /\ LastPublished /\ last.type = prev.type /\ last.name = prev.name
    /\ last.calls # <<>>

\* C15: once the DELETE call of _unpublish_item succeeded for an item, a
\* _publish_item of the same (type, name) in the same run finds the item
\* without a guid and sends the create call, never a call addressed to the
\* guid that was deleted.
C15_DeletedItemIsRecreated ==
    PublishedAfterDelete
    => /\ last.guidBefore = <<>>
       /\ CallKind(last.calls[1]) = "create"
       /\ last.calls[1].guid # prev.guidBefore

(***************************************************************************)
(* Guids after a refresh, checked under ScanSpec.                          *)
(***************************************************************************)
\* C16: right after the repository was scanned against the fetched deployed
\* collection, every repository item holds the guid of the deployed item of
\* the same type and name, and the empty guid when there is none; a
\* deployed item of the same name and another type gives it nothing.
C16_GuidByTypeAndName ==
    ScanRan
    => \A k \in 1..Len(repository_items) :
           LET x == repository_items[k]
               same == {i \in 1..Len(deployed_items) :
                           deployed_items[i].type = x.type /\ deployed_items[i].name = x.name}
           IN /\ Cardinality(same) <= 1
              /\ same = {} => x.guid = <<>>
              /\ \A i \in same : x.guid = deployed_items[i].guid

\* Notebook A took the guid of the deployed Notebook A; Notebook B has none,
\* although a DataPipeline named B is deployed.
C16_Witness ==
    /\ ScanRan /\ last.err = "none"
    /\ HasItem(repository_items, "Notebook", "A")
    /\ GetItem(repository_items, "Notebook", "A").guid = DeployedId("A")
    /\ HasItem(repository_items, "Notebook", "B")
    /\ GetItem(repository_items, "Notebook", "B").guid = <<>>
    /\ HasItem(deployed_items, "DataPipeline", "B")

(***************************************************************************)
(* Frame of the guids, checked under Spec.                                 *)
(***************************************************************************)
\* The step is a _publish_item or an _unpublish_item call.
EngineStep == steps' = steps + 1 /\ last'.op \in {"publish", "unpublish"}

\* The step sent the create call and the service answered it.
CreateStep ==
    /\ last'.op = "publish" /\ last'.calls # <<>>
    /\ CallKind(last'.calls[1]) = "create" /\ last'.calls[1].ok

\* C17: over a _publish_item or _unpublish_item call the deployed
\* collection stays as it was and no item enters or leaves the repository
\* collection; a repository item's guid changes only when the call is a
\* publish of that very item whose create call succeeded, from the empty
\* guid to the id the service returned.  Updates, skipped and failed
\* publishes and unpublishes change no guid.
C17_GuidFrame ==
    [][EngineStep
       => /\ deployed_items' = deployed_items
          /\ Len(repository_items') = Len(repository_items)
          /\ \A k \in 1..Len(repository_items) :
                 LET x == repository_items[k]
                     y == repository_items'[k]
                     published == x.type = last'.type /\ x.name = last'.name
                 IN /\ y.type = x.type /\ y.name = x.name
                    /\ y.guid # x.guid
                       => /\ CreateStep /\ published
                          /\ x.guid = <<>>
                          /\ y.guid = CreatedId(remote)
                    /\ (CreateStep /\ published) => y.guid = CreatedId(remote)]_vars

\* A create gave an item its guid, and the successful unpublish of another
\* item after it left that guid and the guids of the others alone.
C17_Witness ==
    /\ prev.op = "publish" /\ prev.kind = "create" /\ prev.ok
    /\ last.op = "unpublish" /\ LastCallOk /\ last.name # prev.name
    /\ GetItem(repository_items, prev.type, prev.name).guid = prev.guidAfter
    /\ HasItem(repository_items, last.type, last.name)
    /\ GetItem(repository_items, last.type, last.name).guid = last.guidBefore

(***************************************************************************)
(* A remote call that raises during _publish_item, checked under Spec.     *)
(***************************************************************************)
\* C18: when the remote call of a _publish_item raises, the exception
\* leaves the method, the call was the one the item's guid selects (create
\* for an empty guid, an update otherwise) and the item keeps the guid it
\* had; a _publish_item of the same item right after sends the same kind of
\* call for the same guid.
C18_FailedCallLeavesGuid ==
    /\ (LastPublished /\ last.calls # <<>> /\ ~last.calls[1].ok)
       => /\ last.err = "InvokeError"
          /\ Len(last.calls) = 1
          /\ (CallKind(last.calls[1]) = "create") <=> (last.guidBefore = <<>>)
          /\ last.guidAfter = last.guidBefore
          /\ GetItem(repository_items, last.type, last.name).guid = last.guidBefore
    /\ (/\ prev.op = "publish" /\ prev.kind # "none" /\ ~prev.ok
        /\ LastPublished /\ last.type = prev.type /\ last.name = prev.name
        /\ last.calls # <<>>)
       => /\ prev.err = "InvokeError"
          /\ CallKind(last.calls[1]) = prev.kind
          /\ last.guidBefore = prev.guidBefore
          /\ last.calls[1].guid = prev.guidBefore

\* A create that raised, and the create sent again by the next publish of
\* the item.
C18_Witness ==
    /\ prev.op = "publish" /\ prev.kind = "create" /\ ~prev.ok /\ prev.err = "InvokeError"
    /\ prev.guidAfter = <<>>
    /\ LastPublished /\ last.name = prev.name /\ last.type = prev.type
    /\ LastCallOk /\ CallKind(last.calls[1]) = "create"

\* An update that raised, and the update sent again.
C18_WitnessUpdate ==
    /\ prev.op = "publish" /\ prev.kind = "updateDefinition" /\ ~prev.ok
    /\ LastPublished /\ last.name = prev.name /\ last.type = prev.type
    /\ LastCallOk /\ CallKind(last.calls[1]) = "updateDefinition"

(***************************************************************************)
(* Files that bypass the rewrite, and excluded files: PipelineSpec.        *)
(***************************************************************************)
\* The parts the last publish uploaded.
UploadedParts == last.calls[1].body["definition"].parts

\* C19: a binary file is uploaded with the contents it had, and the
\* .platform file with what the processor, if any, made of its contents:
\* neither logical ids, nor find tokens, nor placeholder workspace
\* references in them are rewritten.  Each of them that is not excluded is
\* one part of the definition, and the parts are as many as the files that
\* are not excluded.
C19_BinaryAndMarkerBypass ==
    LastUploadedFiles
    => LET item == GetItem(repository_items, last.type, last.name)
       IN /\ Len(UploadedParts) = Cardinality({i \in 1..Len(last.filesBefore) : ~Excluded(i)})
          /\ \A i \in 1..Len(last.filesBefore) :
                 LET file == last.filesBefore[i]
                     kept == IF file.type = "text"
                             THEN ApplyProcessor(last.func_process_file, item, file)
                             ELSE file.contents
                 IN (~Excluded(i) /\ (file.type # "text" \/ file.name = ".platform"))
                    => /\ UploadedParts[PartIndex(i)].path = file.relative_path
                       /\ UploadedParts[PartIndex(i)].payload.b64 = kept
                       /\ item.item_files[i].contents = kept

\* Notebook A, deployed: its .platform file names its logical id and its
\* binary file holds a logical id, a find token and a placeholder
\* reference; both went up as they were, next to a rewritten text file.
C19_Witness ==
    /\ LastUploadedFiles /\ LastCallOk
    /\ last.name = "A" /\ last.guidBefore # <<>> /\ last.func_process_file = None
    /\ environment_parameter.find_replace = <<NotebookRule>>
    /\ Len(UploadedParts) = 3
    /\ UploadedParts[1].payload.b64 = <<"m", "a">>
    /\ UploadedParts[2].payload.b64 = <<"r", "c", "r">>
    /\ UploadedParts[3].payload.b64 = <<"a", "f", "w", "z", "q">>

\* C20: a file whose relative path the exclude-path regex matches is no
\* part of the uploaded definition and keeps its contents; the files that
\* are not excluded are the parts, one each, in the order of the item's
\* files.  With the default regex every file of the item is a part.
C20_ExcludedFilesLeftOut ==
    LastUploadedFiles
    => LET item == GetItem(repository_items, last.type, last.name)
           n == Len(last.filesBefore)
       IN /\ \A i \in 1..n :
                 ReMatch(last.exclude_path, last.filesBefore[i].relative_path)
                 => /\ item.item_files[i] = last.filesBefore[i]
                    /\ \A p \in 1..Len(UploadedParts) :
                           UploadedParts[p].path # last.filesBefore[i].relative_path
          /\ \E pick \in [1..Len(UploadedParts) -> 1..n] :
                 /\ \A p, q \in 1..Len(UploadedParts) : p < q => pick[p] < pick[q]
                 /\ \A p \in 1..Len(UploadedParts) :
                        UploadedParts[p].path = last.filesBefore[pick[p]].relative_path
                 /\ \A i \in 1..n :
                        ReMatch(last.exclude_path, last.filesBefore[i].relative_path)
                        \/ \E p \in 1..Len(UploadedParts) : pick[p] = i
          /\ last.exclude_path = ExcludeDefault
             => /\ Len(UploadedParts) = n
                /\ \A i \in 1..n : UploadedParts[i].path = last.filesBefore[i].relative_path

\* The text file of Notebook A, which holds a find token of the table, was
\* excluded: two parts went up and the file kept its contents.
C20_Witness ==
    /\ LastUploadedFiles /\ LastCallOk
    /\ last.name = "A" /\ last.exclude_path = "nb" /\ last.func_process_file # None
    /\ environment_parameter.find_replace = <<NotebookRule>>
    /\ last.filesBefore[2].contents = <<"f", "c", "f">>
    /\ GetItem(repository_items, "Notebook", "A").item_files[2].contents = <<"f", "c", "f">>
    /\ Len(UploadedParts) = 2
    /\ UploadedParts[1].path = ".platform" /\ UploadedParts[2].path = "img.bin"

\* The default regex: all three files of Notebook A went up, in order.
C20_WitnessDefault ==
    /\ LastUploadedFiles /\ LastCallOk
    /\ last.name = "A" /\ last.exclude_path = ExcludeDefault
    /\ Len(UploadedParts) = 3
    /\ UploadedParts[2].path = "nb.py"

(***************************************************************************)
(* Runs over repositories whose items refer to each other: ResolveSpec.    *)
(* Notebook A has logical id "a", Notebook B logical id "b" and a text     *)
(* file that mentions A; the .platform file of Notebook Y may give, as     *)
(* logical id, the text that is the guid of the deployed A.  The folders   *)
(* come in any order, which is the order of iteration of the collection.   *)
(***************************************************************************)
ResolveFolder(name, logical_id) ==
    Folder(name, "ok", "Notebook", name, logical_id,
           <<DiskFile("nb.py", "text", IF name = "B" THEN <<"a", "c", "a">> ELSE <<"c">>)>>)

\* The orders in which os.walk may list three folders.
FolderOrders == {o \in [1..3 -> 1..3] : \A i, j \in 1..3 : i # j => o[i] # o[j]}

ResolveDisks ==
    {[i \in 1..3 |-> <<ResolveFolder("A", <<"a">>), ResolveFolder("B", <<"b">>),
                       ResolveFolder("Y", y)>>[o[i]]] :
        o \in FolderOrders, y \in {<<"y">>, DeployedId("A")}}

InitResolve ==
    /\ InitCommon
    /\ disk \in ResolveDisks
    /\ parameter_file = NoRules
    /\ remote \in {InitialRemote(names) : names \in SUBSET {"A", "B", "Y"}}

NextResolve ==
    \/ \E ok \in BOOLEAN : Construct(ok)
    \/ \E n \in {"A", "B", "Y"}, ok \in BOOLEAN :
           PublishItem(n, ItemType(n), ExcludeDefault, None, None, ok)
    \/ \E t \in {"Notebook", "Lakehouse"}, id \in {<<"a">>, <<"g1">>, <<"x">>},
          lookup_type \in {"Repository", "Deployed"} :
           ConvertIdToName(t, id, lookup_type)
    \/ \E t \in {"Notebook", "Lakehouse"}, path \in {"A", "Z"} : ConvertPathToId(t, path)

ResolveSpec == InitResolve /\ [][NextResolve]_vars

\* The guid that stands for the one-atom text x once logical ids are
\* resolved: the guid of the item whose logical id x is, x itself when it is
\* no item's logical id.
GuidFor(repo, x) ==
    IF \E k \in 1..Len(repo) : repo[k].logical_id = <<x>>
    THEN repo[CHOOSE k \in 1..Len(repo) : repo[k].logical_id = <<x>>].guid
    ELSE <<x>>

\* The text with every occurrence of a logical id replaced by its item's
\* guid.
RECURSIVE EveryLogicalIdResolved(_, _)
EveryLogicalIdResolved(repo, text) ==
    IF text = <<>> THEN <<>>
    ELSE GuidFor(repo, Head(text)) \o EveryLogicalIdResolved(repo, Tail(text))

\* Some item whose logical id occurs in the text has no guid.
MentionsUndeployed(repo, text) ==
    \E k \in 1..Len(repo) : Contains(text, repo[k].logical_id) /\ repo[k].guid = <<>>

\* C21: the text file of a published item is uploaded with every occurrence
\* of a repository item's logical id replaced by that item's guid, whatever
\* the order of the items in the collection; the publish ends with
\* ParsingError, sends nothing and changes no guid exactly when the text
\* mentions the logical id of an item without a guid.
C21_LogicalIdsResolved ==
    (LastPublished /\ Len(last.filesBefore) = 2)
    => LET text == last.filesBefore[2].contents
       IN /\ (last.err = "ParsingError") <=> MentionsUndeployed(RepositoryBefore, text)
          /\ last.err = "ParsingError"
             => /\ last.calls = <<>>
                /\ last.guidAfter = last.guidBefore
          /\ last.err # "ParsingError"
             => UploadedTexts(last.calls[1].body)[2]
                    = EveryLogicalIdResolved(RepositoryBefore, text)

(***************************************************************************)
(* The lookup helpers, checked under ResolveSpec.                          *)
(***************************************************************************)
\* The collection a lookup searched.
Searched == IF last.lookup_type = "Repository" THEN repository_items ELSE deployed_items

\* C22: _convert_id_to_name and _convert_path_to_id never raise: a
\* reference that resolves gives the name, or the logical id, of the item
\* it resolves to, and every other reference gives None, also when the
\* collection searched has no item of the given type.
C22_LookupReturnsNone ==
    /\ last.op = "id_to_name"
       => /\ last.err = "none"
          /\ IF \E k \in 1..Len(Searched) :
                    /\ Searched[k].type = last.type
                    /\ LookupId(Searched[k], last.lookup_type) = last.generic_id
             THEN /\ last.returned = "name"
                  /\ \E k \in 1..Len(Searched) :
                         /\ Searched[k].type = last.type
                         /\ LookupId(Searched[k], last.lookup_type) = last.generic_id
                         /\ Searched[k].name = last.returned_name
             ELSE last.returned = "None"
    /\ last.op = "path_to_id"
       => /\ last.err = "none"
          /\ IF \E k \in 1..Len(repository_items) :
                    repository_items[k].type = last.type /\ repository_items[k].path = last.path
             THEN /\ last.returned = "logical_id"
                  /\ \E k \in 1..Len(repository_items) :
                         /\ repository_items[k].type = last.type
                         /\ repository_items[k].path = last.path
                         /\ repository_items[k].logical_id = last.returned_id
             ELSE last.returned = "None"

(***************************************************************************)
(* A second publish of the same item, checked under PipelineSpec.          *)
(***************************************************************************)
\* The last operation published an item through its files, without a
\* processor, and the service accepted the call.
PublishedFiles ==
    /\ LastUploadedFiles /\ LastCallOk
    /\ last.err = "none"
    /\ last.func_process_file = None

\* The step publishes again, with the same arguments, the item that the
\* operation before published, and gets as far as its remote call.
RepublishStep ==
    /\ PublishedFiles
    /\ steps' = steps + 1
    /\ last'.op = "publish" /\ last'.type = last.type /\ last'.name = last.name
    /\ last'.exclude_path = last.exclude_path
    /\ last'.func_process_file = None
    /\ last'.calls # <<>>

\* C23: a second _publish_item of an item, right after a first one that
\* succeeded and with nothing changed in between, sends an update whose
\* definition parts are the parts the first publish sent, whatever the
\* find/replace table.
C23_RepublishSameParts ==
    [][RepublishStep
       => /\ CallKind(last'.calls[1]) = "updateDefinition"
          /\ last'.calls[1].body["definition"].parts = last.calls[1].body["definition"].parts]_vars

====
